---- MODULE Spec2Model ----
(***************************************************************************)
(* OpenAIClient (llm_client/src/clients/openai.rs): model lookup, message  *)
(* normalisation, credential resolution and the streaming aggregator of    *)
(* stream_completion, for the Azure and the OpenAI-compatible client.      *)
(* ReferenceFilterBroker (sidecar/src/agentic/tool/ref_filter): the        *)
(* fan-out of invoke over buffer_unordered, and parse_response.            *)
(*                                                                         *)
(* Text is a sequence of characters; Option<T> is a sequence of length at  *)
(* most one; Result<T, E> is a record [ok, val, err].                      *)
(***************************************************************************)
EXTENDS Integers, Sequences, FiniteSets, TLC

\* Longest backend stream (number of chunks) that is explored.
MaxChunks == 3
\* Longest message list given to OpenAIClient::messages on its own.
MaxMessages == 2
\* Largest batch of ReferenceFilterBroker::invoke explored request by request.
MaxRequests == 3
\* Largest excess of a batch over the limit of buffer_unordered that is
\* explored by numbers of requests.
MaxOverLimit == 2

None == <<>>
Some(x) == <<x>>
Ok(v) == [ok |-> TRUE, val |-> v, err |-> ""]
Err(e) == [ok |-> FALSE, val |-> <<>>, err |-> e]

----------------------------------------------------------------------------
(* Inputs *)

\* LLMType: the seven variants OpenAIClient::model maps, and one it does not.
MappedLLMTypes ==
    {"GPT3_5_16k", "Gpt4", "Gpt4Turbo", "Gpt4_32k", "Gpt4O", "Gpt4OMini",
     "DeepSeekCoder33BInstruct"}
LLMTypes == MappedLLMTypes \cup {"MistralInstruct"}

\* LLMProviderAPIKeys: tagged union; unused fields are "".
Bundle(tag, key, base, dep, ver) ==
    [tag |-> tag, api_key |-> key, api_base |-> base,
     deployment_id |-> dep, api_version |-> ver]
LLMProviderAPIKeys ==
    {Bundle("OpenAI", "sk-openai", "", "", ""),
     Bundle("OpenAIAzureConfig", "az-key-1", "https://one.azure", "dep-1", "2023-08"),
     Bundle("OpenAIAzureConfig", "az-key-2", "https://two.azure", "dep-2", "2024-02"),
     Bundle("Anthropic", "ant-key", "", "", ""),
     Bundle("TogetherAI", "tog-key", "", "", "")}

\* LLMClientMessage {role, message, function_call}
FunctionCallValue == [name |-> "lookup", arguments |-> "{}"]
LLMClientRoles == {"User", "System", "Assistant", "Function"}
LLMClientMessages ==
    [role : LLMClientRoles, content : {"", "hi"},
     function_call : {None, Some(FunctionCallValue)}]
Message(role, content, fc) ==
    [role |-> role, content |-> content, function_call |-> fc]

SeqsUpTo(S, n) == UNION {[1..k -> S] : k \in 0..n}

\* Message lists the whole call is explored with: a valid one, and one with
\* a Function message that lacks its call.
RequestMessages ==
    {<<Message("System", "hi", None), Message("User", "hi", None)>>,
     <<Message("User", "hi", None), Message("Function", "", None)>>}

\* One item of the backend stream: Err(_) or Ok(response) with its choices;
\* a choice carries delta.content : Option<String>.
Choice(content) == [delta |-> [content |-> content]]
ErrChunk == [ok |-> FALSE, choices |-> <<>>]
OkChunk(choices) == [ok |-> TRUE, choices |-> choices]
Chunks ==
    {ErrChunk,
     OkChunk(<<>>),
     OkChunk(<<Choice(None)>>),
     OkChunk(<<Choice(Some(<<>>))>>),
     OkChunk(<<Choice(Some(<<"a">>))>>),
     OkChunk(<<Choice(Some(<<"b">>)), Choice(Some(<<"c">>))>>)}
Streams == SeqsUpTo(Chunks, MaxChunks)

----------------------------------------------------------------------------
(* OpenAIClient::model *)
model(llm_type) ==
    CASE llm_type = "GPT3_5_16k" -> Some("gpt-3.5-turbo-16k-0613")
      [] llm_type = "Gpt4" -> Some("gpt-4-0613")
      [] llm_type = "Gpt4Turbo" -> Some("gpt-4-1106-preview")
      [] llm_type = "Gpt4_32k" -> Some("gpt-4-32k-0613")
      [] llm_type = "Gpt4O" -> Some("gpt-4o")
      [] llm_type = "Gpt4OMini" -> Some("gpt-4o-mini")
      [] llm_type = "DeepSeekCoder33BInstruct" -> Some("deepseek-coder-33b")
      [] OTHER -> None

(* ChatCompletionRequestMessage: the variant, the role written into it, the
   optional content and the optional function call. *)
WireMessage(variant, role, content, fc) ==
    [variant |-> variant, role |-> role, content |-> content,
     function_call |-> fc]

(* format_message with the Function arm falling back to a plain assistant
   message when the call is absent. *)
format_message_FunctionAsAssistant(message) ==
    CASE message.role = "User" ->
           Ok(WireMessage("User", "user", Some(message.content), None))
      [] message.role = "System" ->
           Ok(WireMessage("System", "system", Some(message.content), None))
      [] message.role \in {"Assistant", "Function"} ->
           IF message.function_call # None
           THEN Ok(WireMessage("Assistant", "function", None,
                               message.function_call))
           ELSE Ok(WireMessage("Assistant", "assistant",
                               Some(message.content), None))

(* format_message whose Assistant arm with a function call also carries
   the content, as the Function arm does. *)
format_message_AssistantKeepsContent(message) ==
    CASE message.role = "User" ->
           Ok(WireMessage("User", "user", Some(message.content), None))
      [] message.role = "System" ->
           Ok(WireMessage("System", "system", Some(message.content), None))
      [] message.role = "Assistant" ->
           IF message.function_call # None
           THEN Ok(WireMessage("Assistant", "function",
                               Some(message.content), message.function_call))
           ELSE Ok(WireMessage("Assistant", "assistant",
                               Some(message.content), None))
      [] message.role = "Function" ->
           IF message.function_call # None
           THEN Ok(WireMessage("Assistant", "function",
                               Some(message.content), message.function_call))
           ELSE Err("FunctionCallNotPresent")

(* The closure of OpenAIClient::messages: one message to Result<wire>. *)
format_message(message) ==
    CASE message.role = "User" ->
           Ok(WireMessage("User", "user", Some(message.content), None))
      [] message.role = "System" ->
           Ok(WireMessage("System", "system", Some(message.content), None))
      [] message.role = "Assistant" ->
           IF message.function_call # None
           THEN Ok(WireMessage("Assistant", "function", None,
                               message.function_call))
           ELSE Ok(WireMessage("Assistant", "assistant",
                               Some(message.content), None))
      [] message.role = "Function" ->
           IF message.function_call # None
           THEN Ok(WireMessage("Assistant", "function",
                               Some(message.content), message.function_call))
           ELSE Err("FunctionCallNotPresent")

(* collect_results keeping the messages that converted and dropping the
   others. *)
collect_results_SkipsErrors(formatted) ==
    LET good == SelectSeq(formatted, LAMBDA r : r.ok)
    IN Ok([i \in 1..Len(good) |-> good[i].val])

(* collect::<Result<Vec<_>, _>>(): the first Err, else all the values. *)
collect_results(formatted) ==
    IF \E i \in 1..Len(formatted) : ~formatted[i].ok
    THEN LET first == CHOOSE i \in 1..Len(formatted) :
                         /\ ~formatted[i].ok
                         /\ \A j \in 1..(i - 1) : formatted[j].ok
         IN Err(formatted[first].err)
    ELSE Ok([i \in 1..Len(formatted) |-> formatted[i].val])

(* OpenAIClient::messages *)
messages(msgs) ==
    collect_results([i \in 1..Len(msgs) |-> format_message(msgs[i])])

OPENAI_API_BASE == "https://api.openai.com/v1"

(* OpenAIClientType: the variant and the configuration of its Client. *)
Handle(kind, key, base, dep, ver) ==
    [kind |-> kind, api_key |-> key, api_base |-> base,
     deployment_id |-> dep, api_version |-> ver]

(* generate_openai_client without the DeepSeekCoder33BInstruct escape
   hatch: the bundle's tag alone decides. *)
generate_openai_client_NoEscapeHatch(key, llm_model) ==
    CASE key.tag = "OpenAI" ->
           Ok(Handle("OpenAIClient", key.api_key, OPENAI_API_BASE, "", ""))
      [] key.tag = "OpenAIAzureConfig" ->
           Ok(Handle("AzureClient", key.api_key, key.api_base,
                     key.deployment_id, key.api_version))
      [] OTHER -> Err("WrongAPIKeyType")

(* generate_openai_client whose wildcard arm builds an OpenAI client from
   whatever key the bundle holds. *)
generate_openai_client_FallbackOpenAI(key, llm_model) ==
    IF llm_model = "DeepSeekCoder33BInstruct"
    THEN IF key.tag = "OpenAIAzureConfig"
         THEN Ok(Handle("OpenAIClient", key.api_key, key.api_base, "", ""))
         ELSE Err("WrongAPIKeyType")
    ELSE CASE key.tag = "OpenAIAzureConfig" ->
                Ok(Handle("AzureClient", key.api_key, key.api_base,
                          key.deployment_id, key.api_version))
           [] OTHER ->
                Ok(Handle("OpenAIClient", key.api_key, OPENAI_API_BASE, "", ""))

(* OpenAIClient::generate_openai_client *)
generate_openai_client(key, llm_model) ==
    IF llm_model = "DeepSeekCoder33BInstruct"
    THEN IF key.tag = "OpenAIAzureConfig"
         THEN Ok(Handle("OpenAIClient", key.api_key, key.api_base, "", ""))
         ELSE Err("WrongAPIKeyType")
    ELSE CASE key.tag = "OpenAI" ->
                Ok(Handle("OpenAIClient", key.api_key, OPENAI_API_BASE, "", ""))
           [] key.tag = "OpenAIAzureConfig" ->
                Ok(Handle("AzureClient", key.api_key, key.api_base,
                          key.deployment_id, key.api_version))
           [] OTHER -> Err("WrongAPIKeyType")

(* preflight resolving the credentials before it looks the model up. *)
preflight_CredentialsFirst(key, req) ==
    LET c == generate_openai_client(key, req.model) IN
    IF ~c.ok THEN Err(c.err)
    ELSE LET m == model(req.model) IN
         IF m = None THEN Err("UnSupportedModel")
         ELSE LET msgs == messages(req.messages) IN
              IF ~msgs.ok THEN Err(msgs.err)
              ELSE Ok([model |-> m[1],
                       request |-> [model |-> m[1], messages |-> msgs.val,
                                    stream |-> TRUE],
                       client |-> c.val])

(* preflight resolving the credentials before it normalises the messages. *)
preflight_CredentialsBeforeMessages(key, req) ==
    LET m == model(req.model) IN
    IF m = None THEN Err("UnSupportedModel")
    ELSE LET c == generate_openai_client(key, req.model) IN
         IF ~c.ok THEN Err(c.err)
         ELSE LET msgs == messages(req.messages) IN
              IF ~msgs.ok THEN Err(msgs.err)
              ELSE Ok([model |-> m[1],
                       request |-> [model |-> m[1], messages |-> msgs.val,
                                    stream |-> TRUE],
                       client |-> c.val])

(* stream_completion up to its first await: model lookup, normalisation,
   request build, credential resolution, each returning early on failure. *)
preflight(key, req) ==
    LET m == model(req.model) IN
    IF m = None THEN Err("UnSupportedModel")
    ELSE LET msgs == messages(req.messages) IN
         IF ~msgs.ok THEN Err(msgs.err)
         ELSE LET c == generate_openai_client(key, req.model) IN
              IF ~c.ok THEN Err(c.err)
              ELSE Ok([model |-> m[1],
                       request |-> [model |-> m[1], messages |-> msgs.val,
                                    stream |-> TRUE],
                       client |-> c.val])

(* LLMClientCompletionResponse::new *)
LLMClientCompletionResponse(answer_up_until_now, delta, model_str) ==
    [answer_up_until_now |-> answer_up_until_now, delta |-> delta,
     model |-> model_str]

----------------------------------------------------------------------------
VARIABLES
    api_key,        \* argument: the credential bundle
    request,        \* argument: [model, messages]
    receiver_alive, \* the receiving end of `sender` has not been dropped
    channel,        \* responses queued on the channel, oldest first
    sent,           \* every response handed to sender.send, oldest first
    pc,             \* position of the call
    model_name,     \* local `model` (backend model string)
    client,         \* local `client` : Option<OpenAIClientType>
    stream,         \* None until the backend stream is opened, then
                    \* Some(the items it yields, in order)
    polled,         \* number of items taken from the stream so far
    buffer,         \* local `buffer`
    result,         \* Option<Result<String, LLMClientError>> of the call
    formatted_messages, \* Option of what OpenAIClient::messages returned,
                        \* when it is called on its own
    completion_pc,      \* position of OpenAIClient::completion: "none" when
                        \* stream_completion is called directly
    completion_result,  \* Option of what OpenAIClient::completion returned
    \* ReferenceFilterBroker::invoke, request by request
    tool_input,         \* argument: [kind, reference_outlines]
    backend,            \* what the client layer answers to each request
    broker_pc,          \* position of invoke: "none" when it is not called
    next_request,       \* index of the next request the iterator yields
    in_flight,          \* requests held by buffer_unordered, not finished
    calls,              \* stream_completion calls issued, in issue order
    completed,          \* [request, response] printed, in completion order
    broker_result,      \* Option of what invoke returned
    \* ReferenceFilterBroker::invoke, by numbers of requests
    load_total,         \* number of requests of the batch
    load_started,       \* requests taken from the iterator so far
    load_finished,      \* requests whose future has completed
    \* ReferenceFilterBroker::parse_response
    reply_text,         \* argument `response`, in pieces of text
    reply_answer        \* Option of the `answer` it returned

vars == <<api_key, request, receiver_alive, channel, sent, pc, model_name,
          client, stream, polled, buffer, result, formatted_messages,
          completion_pc, completion_result, tool_input, backend, broker_pc,
          next_request, in_flight, calls, completed, broker_result,
          load_total, load_started, load_finished, reply_text,
          reply_answer>>

\* The fan-out of ReferenceFilterBroker::invoke.
broker_vars == <<tool_input, backend, broker_pc, next_request, in_flight,
                 calls, completed, broker_result>>
load_vars == <<load_total, load_started, load_finished>>
parse_vars == <<reply_text, reply_answer>>
fan_out == <<broker_vars, load_vars, parse_vars>>

\* The frame around one stream_completion call: what its caller holds.
outer == <<completion_pc, completion_result, fan_out>>

inputs == <<api_key, request, formatted_messages, outer>>

\* No fan-out is running.
RequestsIdle ==
    /\ tool_input = [kind |-> "none", reference_outlines |-> <<>>]
    /\ backend = <<>>
    /\ broker_pc = "none"
    /\ next_request = 1
    /\ in_flight = {}
    /\ calls = <<>>
    /\ completed = <<>>
    /\ broker_result = None

LoadIdle ==
    /\ load_total = 0
    /\ load_started = 0
    /\ load_finished = 0

\* parse_response is not called.
ParseIdle ==
    /\ reply_text = <<>>
    /\ reply_answer = None

BrokerIdle == RequestsIdle /\ LoadIdle /\ ParseIdle

Init ==
    /\ api_key \in LLMProviderAPIKeys
    /\ request \in [model : LLMTypes, messages : RequestMessages]
    /\ receiver_alive = TRUE
    /\ channel = <<>>
    /\ sent = <<>>
    /\ pc = "start"
    /\ model_name = ""
    /\ client = None
    /\ stream = None
    /\ polled = 0
    /\ buffer = <<>>
    /\ result = None
    /\ formatted_messages = None
    /\ completion_pc = "none"
    /\ completion_result = None
    /\ BrokerIdle

(* Preflight publishing an empty first snapshot before it runs its
   checks. *)
Preflight_AnnouncesFirst ==
    /\ pc = "start"
    /\ LET p == preflight(api_key, request) IN
       IF p.ok
       THEN /\ pc' = "create_stream"
            /\ model_name' = p.val.model
            /\ client' = Some(p.val.client)
            /\ result' = result
       ELSE /\ pc' = "done"
            /\ result' = Some(Err(p.err))
            /\ UNCHANGED <<model_name, client>>
    /\ sent' = Append(sent, [answer_up_until_now |-> <<>>,
                             delta |-> Some(<<>>), model |-> ""])
    /\ channel' = IF receiver_alive THEN sent' ELSE channel
    /\ UNCHANGED <<inputs, receiver_alive, stream, polled, buffer>>

(* Lines 158-176. *)
Preflight ==
    /\ pc = "start"
    /\ LET p == preflight(api_key, request) IN
       IF p.ok
       THEN /\ pc' = "create_stream"
            /\ model_name' = p.val.model
            /\ client' = Some(p.val.client)
            /\ result' = result
       ELSE /\ pc' = "done"
            /\ result' = Some(Err(p.err))
            /\ UNCHANGED <<model_name, client>>
    /\ UNCHANGED <<inputs, receiver_alive, channel, sent, stream, polled,
                   buffer>>

(* CreateStream degrading a failure to open the stream into Ok(buffer), as
   the loop does for a failing chunk. *)
CreateStream_SwallowsFailure(kind) ==
    /\ pc = "create_stream"
    /\ client[1].kind = kind
    /\ \/ \E s \in Streams :
            /\ stream' = Some(s)
            /\ pc' = "next"
            /\ result' = result
       \/ /\ pc' = "done"
          /\ result' = Some(Ok(buffer))
          /\ stream' = stream
    /\ UNCHANGED <<inputs, receiver_alive, channel, sent, model_name, client,
                   polled, buffer>>

(* client.chat().create_stream(request).await of either branch: the backend
   answers with a stream, or the call fails and the error is returned. *)
CreateStream(kind) ==
    /\ pc = "create_stream"
    /\ client[1].kind = kind
    /\ \/ \E s \in Streams :
            /\ stream' = Some(s)
            /\ pc' = "next"
            /\ result' = result
       \/ /\ pc' = "done"
          /\ result' = Some(Err("OpenAPIError"))
          /\ stream' = stream
    /\ UNCHANGED <<inputs, receiver_alive, channel, sent, model_name, client,
                   polled, buffer>>

AzureCreateStream == CreateStream("AzureClient")
OpenAICreateStream == CreateStream("OpenAIClient")

(* sender.send(response), its Result discarded: the response is queued
   unless the receiver is gone. *)
Send(response) ==
    /\ sent' = Append(sent, response)
    /\ channel' = IF receiver_alive THEN Append(channel, response) ELSE channel

(* AzureOkArm sending the snapshot taken before the delta is appended. *)
AzureOkArm_StaleSnapshot(response) ==
    LET delta == IF Len(response.choices) >= 1
                    /\ response.choices[1].delta.content # None
                 THEN response.choices[1].delta.content[1]
                 ELSE <<>>
    IN /\ buffer' = buffer \o delta
       /\ Send(LLMClientCompletionResponse(buffer, Some(delta), model_name))
       /\ pc' = "next"
       /\ result' = result

(* AzureOkArm reading the last choice of the chunk instead of the first. *)
AzureOkArm_LastChoice(response) ==
    LET n == Len(response.choices)
        delta == IF n >= 1 /\ response.choices[n].delta.content # None
                 THEN response.choices[n].delta.content[1]
                 ELSE <<>>
    IN /\ buffer' = buffer \o delta
       /\ Send(LLMClientCompletionResponse(buffer \o delta, Some(delta),
                                           model_name))
       /\ pc' = "next"
       /\ result' = result

(* Azure branch, Ok arm (lines 191-209). *)
AzureOkArm(response) ==
    LET delta == IF Len(response.choices) >= 1
                    /\ response.choices[1].delta.content # None
                 THEN response.choices[1].delta.content[1]
                 ELSE <<>>
    IN /\ buffer' = buffer \o delta
       /\ Send(LLMClientCompletionResponse(buffer \o delta, Some(delta),
                                           model_name))
       /\ pc' = "next"
       /\ result' = result

(* AzureErrArm logging the error and going on to the next item. *)
AzureErrArm_Continues ==
    /\ pc' = "next"
    /\ result' = result
    /\ UNCHANGED <<buffer, sent, channel>>

(* Azure branch, Err arm (lines 210-213): break, then Ok(buffer). *)
AzureErrArm ==
    /\ pc' = "done"
    /\ result' = Some(Ok(buffer))
    /\ UNCHANGED <<buffer, sent, channel>>

(* OpenAIOkArm giving up when the send fails for want of a receiver. *)
OpenAIOkArm_StopOnSendFailure(response) ==
    IF Len(response.choices) = 0
    THEN /\ pc' = "done"
         /\ result' = Some(Err("FailedToGetResponse"))
         /\ UNCHANGED <<buffer, sent, channel>>
    ELSE LET text == response.choices[1].delta.content IN
         IF text # None
         THEN /\ buffer' = buffer \o text[1]
              /\ Send(LLMClientCompletionResponse(buffer \o text[1],
                                                  Some(text[1]), model_name))
              /\ IF receiver_alive
                 THEN pc' = "next" /\ result' = result
                 ELSE pc' = "done" /\ result' = Some(Err("SendError"))
         ELSE /\ pc' = "next"
              /\ UNCHANGED <<buffer, sent, channel, result>>

(* OpenAIOkArm passing over a first choice whose content is empty. *)
OpenAIOkArm_SkipsEmptyText(response) ==
    IF Len(response.choices) = 0
    THEN /\ pc' = "done"
         /\ result' = Some(Err("FailedToGetResponse"))
         /\ UNCHANGED <<buffer, sent, channel>>
    ELSE LET text == response.choices[1].delta.content IN
         IF text # None /\ text[1] # <<>>
         THEN /\ buffer' = buffer \o text[1]
              /\ Send(LLMClientCompletionResponse(buffer \o text[1],
                                                  Some(text[1]), model_name))
              /\ pc' = "next"
              /\ result' = result
         ELSE /\ pc' = "next"
              /\ UNCHANGED <<buffer, sent, channel, result>>

(* OpenAIOkArm sending the snapshot taken before the text is appended. *)
OpenAIOkArm_StaleSnapshot(response) ==
    IF Len(response.choices) = 0
    THEN /\ pc' = "done"
         /\ result' = Some(Err("FailedToGetResponse"))
         /\ UNCHANGED <<buffer, sent, channel>>
    ELSE LET text == response.choices[1].delta.content IN
         IF text # None
         THEN /\ buffer' = buffer \o text[1]
              /\ Send(LLMClientCompletionResponse(buffer, Some(text[1]),
                                                  model_name))
              /\ pc' = "next"
              /\ result' = result
         ELSE /\ pc' = "next"
              /\ UNCHANGED <<buffer, sent, channel, result>>

(* OpenAI branch, Ok arm (lines 221-235). *)
OpenAIOkArm(response) ==
    IF Len(response.choices) = 0
    THEN /\ pc' = "done"
         /\ result' = Some(Err("FailedToGetResponse"))
         /\ UNCHANGED <<buffer, sent, channel>>
    ELSE LET text == response.choices[1].delta.content IN
         IF text # None
         THEN /\ buffer' = buffer \o text[1]
              /\ Send(LLMClientCompletionResponse(buffer \o text[1],
                                                  Some(text[1]), model_name))
              /\ pc' = "next"
              /\ result' = result
         ELSE /\ pc' = "next"
              /\ UNCHANGED <<buffer, sent, channel, result>>

(* OpenAIErrArm returning the chunk's error to the caller. *)
OpenAIErrArm_Propagates ==
    /\ pc' = "done"
    /\ result' = Some(Err("OpenAPIError"))
    /\ UNCHANGED <<buffer, sent, channel>>

(* OpenAI branch, Err arm (lines 236-239): break, then Ok(buffer). *)
OpenAIErrArm ==
    /\ pc' = "done"
    /\ result' = Some(Ok(buffer))
    /\ UNCHANGED <<buffer, sent, channel>>

(* The loop exits when the stream is exhausted: Ok(buffer) (line 244). *)
StreamExhausted ==
    /\ pc' = "done"
    /\ result' = Some(Ok(buffer))
    /\ UNCHANGED <<buffer, sent, channel, polled>>

(* One turn of `while let Some(response) = stream.next().await`. *)
AzureNext ==
    /\ pc = "next"
    /\ client[1].kind = "AzureClient"
    /\ IF polled = Len(stream[1])
       THEN StreamExhausted
       ELSE /\ polled' = polled + 1
            /\ IF stream[1][polled + 1].ok
               THEN AzureOkArm(stream[1][polled + 1])
               ELSE AzureErrArm
    /\ UNCHANGED <<inputs, receiver_alive, model_name, client, stream>>

OpenAINext ==
    /\ pc = "next"
    /\ client[1].kind = "OpenAIClient"
    /\ IF polled = Len(stream[1])
       THEN StreamExhausted
       ELSE /\ polled' = polled + 1
            /\ IF stream[1][polled + 1].ok
               THEN OpenAIOkArm(stream[1][polled + 1])
               ELSE OpenAIErrArm
    /\ UNCHANGED <<inputs, receiver_alive, model_name, client, stream>>

(* The caller drops the receiving end while the call is pending. *)
DropReceiver ==
    /\ completion_pc = "none"
    /\ pc # "done"
    /\ receiver_alive
    /\ receiver_alive' = FALSE
    /\ UNCHANGED <<inputs, channel, sent, pc, model_name, client, stream,
                   polled, buffer, result>>

Next ==
    \/ Preflight
    \/ AzureCreateStream
    \/ OpenAICreateStream
    \/ AzureNext
    \/ OpenAINext
    \/ DropReceiver

Spec == Init /\ [][Next]_vars

----------------------------------------------------------------------------
(* OpenAIClient::messages called on its own, over every message list of at
   most MaxMessages messages. *)
InitMessages ==
    /\ api_key \in {Bundle("OpenAI", "sk-openai", "", "", "")}
    /\ request \in [model : {"Gpt4"},
                    messages : SeqsUpTo(LLMClientMessages, MaxMessages)]
    /\ receiver_alive = TRUE
    /\ channel = <<>>
    /\ sent = <<>>
    /\ pc = "messages"
    /\ model_name = ""
    /\ client = None
    /\ stream = None
    /\ polled = 0
    /\ buffer = <<>>
    /\ result = None
    /\ formatted_messages = None
    /\ completion_pc = "none"
    /\ completion_result = None
    /\ BrokerIdle

CallMessages ==
    /\ pc = "messages"
    /\ formatted_messages' = Some(messages(request.messages))
    /\ pc' = "messages_done"
    /\ UNCHANGED <<api_key, request, receiver_alive, channel, sent,
                   model_name, client, stream, polled, buffer, result, outer>>

NextMessages == CallMessages

SpecMessages == InitMessages /\ [][NextMessages]_vars

----------------------------------------------------------------------------
(* OpenAIClient::completion (lines 247-255): stream_completion over a channel
   that completion creates and whose receiver it keeps, unread, until it
   returns. *)
InitCompletion ==
    /\ api_key \in LLMProviderAPIKeys
    /\ request \in [model : LLMTypes, messages : RequestMessages]
    /\ receiver_alive = FALSE
    /\ channel = <<>>
    /\ sent = <<>>
    /\ pc = "idle"
    /\ model_name = ""
    /\ client = None
    /\ stream = None
    /\ polled = 0
    /\ buffer = <<>>
    /\ result = None
    /\ formatted_messages = None
    /\ completion_pc = "call"
    /\ completion_result = None
    /\ BrokerIdle

(* Line 252 and the call of line 253. *)
CompletionCall ==
    /\ completion_pc = "call"
    /\ receiver_alive' = TRUE
    /\ channel' = <<>>
    /\ pc' = "start"
    /\ completion_pc' = "await"
    /\ UNCHANGED <<api_key, request, formatted_messages, completion_result,
                   sent, model_name, client, stream, polled, buffer, result,
                   fan_out>>

(* completion answering Ok("") when stream_completion failed. *)
CompletionReturn_DiscardsError ==
    /\ completion_pc = "await"
    /\ pc = "done"
    /\ completion_result' = IF result[1].ok THEN Some(Ok(result[1].val))
                                             ELSE Some(Ok(<<>>))
    /\ completion_pc' = "done"
    /\ receiver_alive' = FALSE
    /\ channel' = <<>>
    /\ UNCHANGED <<api_key, request, formatted_messages, sent, pc,
                   model_name, client, stream, polled, buffer, result,
                   fan_out>>

(* The `?` of line 253 and line 254; the channel is dropped with the
   function's locals. *)
CompletionReturn ==
    /\ completion_pc = "await"
    /\ pc = "done"
    /\ completion_result' = IF result[1].ok THEN Some(Ok(result[1].val))
                                             ELSE Some(Err(result[1].err))
    /\ completion_pc' = "done"
    /\ receiver_alive' = FALSE
    /\ channel' = <<>>
    /\ UNCHANGED <<api_key, request, formatted_messages, sent, pc,
                   model_name, client, stream, polled, buffer, result,
                   fan_out>>

NextCompletion ==
    \/ CompletionCall
    \/ Preflight
    \/ AzureCreateStream
    \/ OpenAICreateStream
    \/ AzureNext
    \/ OpenAINext
    \/ CompletionReturn

SpecCompletion == InitCompletion /\ [][NextCompletion]_vars

----------------------------------------------------------------------------
(* OpenAIClient::stream_prompt_completion (lines 257-264). *)
PromptRequests == [model : LLMTypes, prompt : {"", "fn main"}]

InitPrompt ==
    /\ api_key \in LLMProviderAPIKeys
    /\ request \in PromptRequests
    /\ receiver_alive \in BOOLEAN
    /\ channel = <<>>
    /\ sent = <<>>
    /\ pc = "prompt"
    /\ model_name = ""
    /\ client = None
    /\ stream = None
    /\ polled = 0
    /\ buffer = <<>>
    /\ result = None
    /\ formatted_messages = None
    /\ completion_pc = "none"
    /\ completion_result = None
    /\ BrokerIdle

(* stream_prompt_completion answering an empty completion for the models it
   knows. *)
stream_prompt_completion_Degrades ==
    /\ pc = "prompt"
    /\ pc' = "done"
    /\ result' = IF model(request.model) # None
                 THEN Some(Ok(<<>>))
                 ELSE Some(Err("OpenAIDoesNotSupportCompletion"))
    /\ UNCHANGED <<inputs, receiver_alive, channel, sent, model_name, client,
                   stream, polled, buffer>>

stream_prompt_completion ==
    /\ pc = "prompt"
    /\ pc' = "done"
    /\ result' = Some(Err("OpenAIDoesNotSupportCompletion"))
    /\ UNCHANGED <<inputs, receiver_alive, channel, sent, model_name, client,
                   stream, polled, buffer>>

NextPrompt == stream_prompt_completion

SpecPrompt == InitPrompt /\ [][NextPrompt]_vars

----------------------------------------------------------------------------
(* ReferenceFilterBroker::invoke (ref_filter.rs, lines 213-268): one
   completion request for each reference outline, run through
   buffer_unordered(200), each response printed, then Err(MissingTool). *)

\* The argument of buffer_unordered (line 254).
BufferUnordered == 200

\* The client of the broker's llm_properties; no call of OpenAIClient is
\* followed step by step here.
ClientIdle ==
    /\ api_key = Bundle("OpenAI", "sk-openai", "", "", "")
    /\ request = [model |-> "Gpt4", messages |-> <<>>]
    /\ receiver_alive = FALSE
    /\ channel = <<>>
    /\ sent = <<>>
    /\ pc = "idle"
    /\ model_name = ""
    /\ client = None
    /\ stream = None
    /\ polled = 0
    /\ buffer = <<>>
    /\ result = None
    /\ formatted_messages = None
    /\ completion_pc = "none"
    /\ completion_result = None

client_vars == <<api_key, request, receiver_alive, channel, sent, pc,
                 model_name, client, stream, polled, buffer, result,
                 formatted_messages, completion_pc, completion_result>>

\* ToolInput: a filter-references request with its reference outlines, or
\* the input of another tool.
Outlines(n) == [i \in 1..n |-> i]
ToolInputs ==
    {[kind |-> "ReferencesFilter", reference_outlines |-> Outlines(n)] :
        n \in 0..MaxRequests}
    \cup {[kind |-> "CodeEditing", reference_outlines |-> <<>>]}

\* What stream_completion of the client layer returns for one request.
Outcomes == {Ok(<<"a">>), Ok(<<"b">>), Err("OpenAPIError")}

(* ReferenceFilterBroker::user_message: one message for each reference. *)
user_message(context) ==
    [i \in 1..Len(context.reference_outlines) |->
        [user_query |-> "query", code_selected |-> "anchored",
         reference |-> context.reference_outlines[i]]]

(* The LLMClientCompletionRequest built for one user message
   (lines 224-229). *)
LLMClientCompletionRequest(user) ==
    [model |-> request.model,
     messages |-> <<[role |-> "System", content |-> "system_message"],
                    [role |-> "User", content |-> user]>>,
     temperature |-> "0.2", frequency_penalty |-> None]

InitBroker ==
    /\ ClientIdle
    /\ LoadIdle
    /\ ParseIdle
    /\ tool_input \in ToolInputs
    /\ backend \in [1..Len(tool_input.reference_outlines) -> Outcomes]
    /\ broker_pc = "invoke"
    /\ next_request = 1
    /\ in_flight = {}
    /\ calls = <<>>
    /\ completed = <<>>
    /\ broker_result = None

(* Lines 214-220: the input is taken as a filter-references request, or the
   `?` returns the error. *)
BrokerInvoke ==
    /\ broker_pc = "invoke"
    /\ IF tool_input.kind = "ReferencesFilter"
       THEN /\ broker_pc' = "fan_out"
            /\ broker_result' = broker_result
       ELSE /\ broker_pc' = "done"
            /\ broker_result' = Some(Err("WrongToolInput"))
    /\ UNCHANGED <<client_vars, load_vars, parse_vars,
                   tool_input, backend, next_request,
                   in_flight, calls, completed>>

\* buffer_unordered takes the next future from the iterator while fewer
\* than its limit are in progress, before it polls those in progress.
CanStart ==
    /\ next_request <= Len(user_message(tool_input))
    /\ Cardinality(in_flight) < BufferUnordered

(* Lines 221-250: the next request is built and its stream_completion call
   issued. *)
BrokerStart ==
    /\ broker_pc = "fan_out"
    /\ CanStart
    /\ in_flight' = in_flight \cup {next_request}
    /\ calls' = Append(calls,
                  [request |-> next_request,
                   completion_request |-> LLMClientCompletionRequest(
                       user_message(tool_input)[next_request])])
    /\ next_request' = next_request + 1
    /\ UNCHANGED <<client_vars, load_vars, parse_vars,
                   tool_input, backend, broker_pc,
                   completed, broker_result>>

(* BrokerFinish abandoning the batch when a request fails. *)
BrokerFinish_FailFast(i) ==
    /\ broker_pc = "fan_out"
    /\ ~CanStart
    /\ i \in in_flight
    /\ completed' = Append(completed, [request |-> i, response |-> backend[i]])
    /\ IF backend[i].ok
       THEN /\ in_flight' = in_flight \ {i}
            /\ next_request' = next_request
       ELSE /\ in_flight' = {}
            /\ next_request' = Len(user_message(tool_input)) + 1
    /\ UNCHANGED <<client_vars, load_vars, parse_vars,
                   tool_input, backend, broker_pc,
                   calls, broker_result>>

(* BrokerFinish issuing a failed request once more. *)
BrokerFinish_RetriesFailure(i) ==
    /\ broker_pc = "fan_out"
    /\ ~CanStart
    /\ i \in in_flight
    /\ IF ~backend[i].ok
          /\ Cardinality({k \in 1..Len(calls) : calls[k].request = i}) = 1
       THEN /\ calls' = Append(calls, calls[CHOOSE k \in 1..Len(calls) :
                                              calls[k].request = i])
            /\ UNCHANGED <<in_flight, completed>>
       ELSE /\ completed' = Append(completed,
                               [request |-> i, response |-> backend[i]])
            /\ in_flight' = in_flight \ {i}
            /\ calls' = calls
    /\ UNCHANGED <<client_vars, load_vars, parse_vars,
                   tool_input, backend, broker_pc,
                   next_request, broker_result>>

(* Lines 236-251: the call of request i returns and its response, Ok or
   Err, is printed. *)
BrokerFinish(i) ==
    /\ broker_pc = "fan_out"
    /\ ~CanStart
    /\ i \in in_flight
    /\ completed' = Append(completed, [request |-> i, response |-> backend[i]])
    /\ in_flight' = in_flight \ {i}
    /\ UNCHANGED <<client_vars, load_vars, parse_vars,
                   tool_input, backend, broker_pc,
                   next_request, calls, broker_result>>

(* BrokerReturn handing back the collected answers when every completion
   succeeded. *)
BrokerReturn_OkWhenAllSucceeded ==
    /\ broker_pc = "fan_out"
    /\ next_request > Len(user_message(tool_input))
    /\ in_flight = {}
    /\ broker_pc' = "done"
    /\ broker_result' =
          IF \A k \in 1..Len(completed) : completed[k].response.ok
          THEN Some(Ok("ReferencesFilter"))
          ELSE Some(Err("MissingTool"))
    /\ UNCHANGED <<client_vars, load_vars, parse_vars,
                   tool_input, backend, next_request,
                   in_flight, calls, completed>>

(* BrokerReturn not waiting for the requests in progress. *)
BrokerReturn_BeforeDrained ==
    /\ broker_pc = "fan_out"
    /\ next_request > Len(user_message(tool_input))
    /\ broker_pc' = "done"
    /\ broker_result' = Some(Err("MissingTool"))
    /\ UNCHANGED <<client_vars, load_vars, parse_vars,
                   tool_input, backend, next_request,
                   in_flight, calls, completed>>

(* Lines 254-258: collect ends when the iterator is exhausted and nothing is
   in progress; invoke returns Err(MissingTool). *)
BrokerReturn ==
    /\ broker_pc = "fan_out"
    /\ next_request > Len(user_message(tool_input))
    /\ in_flight = {}
    /\ broker_pc' = "done"
    /\ broker_result' = Some(Err("MissingTool"))
    /\ UNCHANGED <<client_vars, load_vars, parse_vars,
                   tool_input, backend, next_request,
                   in_flight, calls, completed>>

RequestIds == 1..MaxRequests

NextBroker ==
    \/ BrokerInvoke
    \/ BrokerStart
    \/ \E i \in RequestIds : BrokerFinish(i)
    \/ BrokerReturn

SpecBroker == InitBroker /\ [][NextBroker]_vars

\* The executor keeps polling invoke, and every request in progress
\* eventually returns.
FairSpecBroker ==
    /\ SpecBroker
    /\ WF_vars(BrokerInvoke)
    /\ WF_vars(BrokerStart)
    /\ \A i \in RequestIds : WF_vars(BrokerFinish(i))
    /\ WF_vars(BrokerReturn)

----------------------------------------------------------------------------
(* The same fan-out by numbers of requests, for batches around the limit of
   buffer_unordered. *)
LoadSizes ==
    {0, 1} \cup ((BufferUnordered - 1)..(BufferUnordered + MaxOverLimit))

InitLoad ==
    /\ ClientIdle
    /\ RequestsIdle
    /\ ParseIdle
    /\ load_total \in LoadSizes
    /\ load_started = 0
    /\ load_finished = 0

LoadCanStart ==
    /\ load_started < load_total
    /\ load_started - load_finished < BufferUnordered

(* LoadStart taking a future while the limit is already reached. *)
LoadStart_OffByOne ==
    /\ load_started < load_total
    /\ load_started - load_finished <= BufferUnordered
    /\ load_started' = load_started + 1
    /\ UNCHANGED <<client_vars, broker_vars, parse_vars,
                   load_total, load_finished>>

(* buffer_unordered(200) takes the next future from the iterator. *)
LoadStart ==
    /\ LoadCanStart
    /\ load_started' = load_started + 1
    /\ UNCHANGED <<client_vars, broker_vars, parse_vars,
                   load_total, load_finished>>

(* One of the futures in progress completes. *)
LoadFinish ==
    /\ ~LoadCanStart
    /\ load_started - load_finished > 0
    /\ load_finished' = load_finished + 1
    /\ UNCHANGED <<client_vars, broker_vars, parse_vars,
                   load_total, load_started>>

NextLoad == LoadStart \/ LoadFinish

SpecLoad == InitLoad /\ [][NextLoad]_vars

----------------------------------------------------------------------------
(* ReferenceFilterBroker::parse_response (ref_filter.rs, lines 197-208): the
   lines of the response between the first line with "<reply>" and the next
   line with "</reply>". A response is a sequence of pieces of text; the
   tags and the line feed are pieces of their own, so a line contains a tag
   exactly when the tag is one of its pieces. *)

\* Longest response, in pieces.
MaxPieces == 6

Pieces == {"<reply>", "</reply>", "yes", "\n"}
Responses == SeqsUpTo(Pieces, MaxPieces)

\* str::lines: the text split at each line feed, a final empty line left out.
lines(text) ==
    LET scan[i \in 0..Len(text)] ==
            IF i = 0 THEN [done |-> <<>>, cur |-> <<>>]
            ELSE IF text[i] = "\n"
                 THEN [done |-> Append(scan[i - 1].done, scan[i - 1].cur),
                       cur |-> <<>>]
                 ELSE [done |-> scan[i - 1].done,
                       cur |-> Append(scan[i - 1].cur, text[i])]
        end == scan[Len(text)]
    IN IF end.cur = <<>> THEN end.done ELSE Append(end.done, end.cur)

\* str::contains for a tag.
contains(l, tag) == \E i \in 1..Len(l) : l[i] = tag

\* Iterator::skip_while(|l| !l.contains(tag))
RECURSIVE skip_while(_, _)
skip_while(ls, tag) ==
    IF ls = <<>> THEN <<>>
    ELSE IF ~contains(Head(ls), tag) THEN skip_while(Tail(ls), tag)
    ELSE ls

\* Iterator::skip(n)
skip(ls, n) == IF Len(ls) <= n THEN <<>> ELSE SubSeq(ls, n + 1, Len(ls))

\* Iterator::take_while(|l| !l.contains(tag))
RECURSIVE take_while(_, _)
take_while(ls, tag) ==
    IF ls = <<>> THEN <<>>
    ELSE IF ~contains(Head(ls), tag)
         THEN <<Head(ls)>> \o take_while(Tail(ls), tag)
    ELSE <<>>

\* [&str]::join(sep)
RECURSIVE join(_, _)
join(ls, sep) ==
    IF ls = <<>> THEN <<>>
    ELSE IF Len(ls) = 1 THEN Head(ls)
    ELSE Head(ls) \o <<sep>> \o join(Tail(ls), sep)

(* parse_response keeping the line that carries "<reply>". *)
parse_response_KeepsReplyLine(response) ==
    join(take_while(skip_while(lines(response), "<reply>"), "</reply>"),
         "\n")

(* parse_response (lines 197-208). *)
parse_response(response) ==
    join(take_while(skip(skip_while(lines(response), "<reply>"), 1),
                    "</reply>"),
         "\n")

InitParse ==
    /\ ClientIdle
    /\ RequestsIdle
    /\ LoadIdle
    /\ reply_text \in Responses
    /\ reply_answer = None

ParseResponse ==
    /\ reply_answer = None
    /\ reply_answer' = Some(parse_response(reply_text))
    /\ UNCHANGED <<client_vars, broker_vars, load_vars, reply_text>>

NextParse == ParseResponse

SpecParse == InitParse /\ [][NextParse]_vars

----------------------------------------------------------------------------
(* Properties of the streaming aggregator *)

Items == stream[1]

\* The delta text a chunk carries: the first choice's content, "" if absent.
DeltaText(chunk) ==
    IF Len(chunk.choices) >= 1 /\ chunk.choices[1].delta.content # None
    THEN chunk.choices[1].delta.content[1]
    ELSE <<>>

HasDeltaText(chunk) ==
    chunk.ok /\ Len(chunk.choices) >= 1 /\ chunk.choices[1].delta.content # None

RECURSIVE ConcatDeltas(_, _)
ConcatDeltas(s, n) ==
    IF n = 0 THEN <<>> ELSE ConcatDeltas(s, n - 1) \o DeltaText(s[n])

\* The item polled last was an Err: the loop took its Err arm.
ErrPolled == stream # None /\ polled >= 1 /\ ~Items[polled].ok

\* Number of Ok items polled so far.
GoodPolled == IF ErrPolled THEN polled - 1 ELSE polled

ClientKind == client[1].kind

\* C1: every response handed to the channel carries the previous response's
\* transcript (the empty text for the first) followed by its own latest
\* delta; so each snapshot is a prefix of the next.
C1_TranscriptGrowsByDelta ==
    \A i \in 1..Len(sent) :
        /\ sent[i].delta # None
        /\ sent[i].answer_up_until_now =
              (IF i = 1 THEN <<>> ELSE sent[i - 1].answer_up_until_now)
                 \o sent[i].delta[1]

C1_Witness ==
    /\ pc = "done"
    /\ ErrPolled
    /\ Len(sent) = 2
    /\ sent[1].delta[1] # <<>>
    /\ sent[2].delta = Some(<<>>)

\* C2: when an item of the opened stream is an Err after k good chunks, the
\* call returns Ok(the transcript of those k chunks), never an Err, in both
\* branches.
C2_MidStreamErrorReturnsPartial ==
    (pc = "done" /\ ErrPolled) =>
        /\ result # None
        /\ result[1].ok
        /\ result[1].val = ConcatDeltas(Items, polled - 1)
        /\ result[1].val = buffer

C2_Witness ==
    /\ pc = "done"
    /\ ErrPolled
    /\ ClientKind = "OpenAIClient"
    /\ polled = 3
    /\ result = Some(Ok(<<"a", "b">>))

\* A successfully decoded chunk without delta text: no first choice, or a
\* first choice without content.
NoDeltaText(chunk) == chunk.ok /\ ~HasDeltaText(chunk)

\* C3: a successfully decoded chunk that carries no delta text is taken as
\* empty text: the call does not end, the transcript is unchanged and the
\* loop goes on to the next chunk, in both branches.
C3_NoDeltaChunkIsEmptyText ==
    [][(pc = "next" /\ polled' = polled + 1 /\ NoDeltaText(Items[polled']))
          => (pc' = "next" /\ buffer' = buffer /\ result' = None)]_vars

\* C4: each good chunk polled causes exactly one response, carrying the
\* transcript so far, Some(delta of that chunk) and the model string; so the
\* responses sent are as many as the good chunks polled.
C4_OneResponsePerGoodChunk ==
    stream # None =>
        /\ Len(sent) = GoodPolled
        /\ \A i \in 1..Len(sent) :
              sent[i] = LLMClientCompletionResponse(
                            ConcatDeltas(Items, i), Some(DeltaText(Items[i])),
                            model(request.model)[1])

\* Every item of the stream is a good chunk that carries a delta text.
ErrorFreeDeltas == \A i \in 1..Len(Items) : HasDeltaText(Items[i])

\* C5: over an error-free stream of chunks with delta texts d1..dn, the i-th
\* response carries d1..di and di, in arrival order, and the call returns
\* Ok(d1..dn).
C5_ErrorFreeStreamInOrder ==
    (stream # None /\ ErrorFreeDeltas) =>
        /\ Len(sent) = polled
        /\ \A i \in 1..Len(sent) :
              /\ sent[i].answer_up_until_now = ConcatDeltas(Items, i)
              /\ sent[i].delta = Some(DeltaText(Items[i]))
        /\ pc = "done" =>
              /\ polled = Len(Items)
              /\ result = Some(Ok(ConcatDeltas(Items, Len(Items))))

C5_Witness ==
    /\ pc = "done"
    /\ stream # None
    /\ ErrorFreeDeltas
    /\ Len(Items) = 3
    /\ Len(Items[1].choices) = 2
    /\ Len(sent) = 3
    /\ result = Some(Ok(<<"b", "a", "b">>))

\* What the call returns, and how many items it polls, over the items s
\* from position i on with transcript buf, as a fold that knows no channel.
RECURSIVE LiveRun(_, _, _, _)
LiveRun(kind, s, i, buf) ==
    IF i > Len(s) THEN [result |-> Ok(buf), polled |-> Len(s)]
    ELSE IF ~s[i].ok THEN [result |-> Ok(buf), polled |-> i]
    ELSE IF kind = "OpenAIClient" /\ Len(s[i].choices) = 0
         THEN [result |-> Err("FailedToGetResponse"), polled |-> i]
    ELSE LiveRun(kind, s, i + 1, buf \o DeltaText(s[i]))

\* C6: whenever the receiver is dropped, the call polls the same items and
\* returns the same result as with a live receiver; a failed send is ignored.
C6_DroppedReceiverChangesNothing ==
    (pc = "done" /\ stream # None) =>
        /\ result = Some(LiveRun(ClientKind, Items, 1, <<>>).result)
        /\ polled = LiveRun(ClientKind, Items, 1, <<>>).polled

C6_Witness ==
    /\ pc = "done"
    /\ stream # None
    /\ ~receiver_alive
    /\ ClientKind = "OpenAIClient"
    /\ Len(channel) = 1
    /\ Len(sent) = 3
    /\ polled = Len(Items)

\* C21: the call is over at the first Err item and at the end of the
\* stream: no item after an Err item is ever taken, no response is sent for
\* the Err item or after it, and once the call has returned the loop cannot
\* take another turn, whatever items follow the Err in the stream.
C21_TerminalStates ==
    stream # None =>
        /\ polled <= Len(Items)
        /\ \A i \in 1..(polled - 1) : Items[i].ok
        /\ ErrPolled => pc = "done"
        /\ Len(sent) <= GoodPolled
        /\ pc = "done" => ~ENABLED (AzureNext \/ OpenAINext)

C21_Witness ==
    /\ pc = "done"
    /\ ErrPolled
    /\ polled = 2
    /\ Len(Items) = 3
    /\ HasDeltaText(Items[3])
    /\ DeltaText(Items[3]) = <<"a">>
    /\ Len(sent) = 1
    /\ result = Some(Ok(<<"a">>))

\* Every good chunk has a first choice with its content present, and an Err
\* item, if any, is the last item.
WellFormed(s) ==
    \A i \in 1..Len(s) :
        IF s[i].ok THEN HasDeltaText(s[i]) ELSE i = Len(s)

\* Number of good chunks of a well-formed stream.
GoodCount(s) ==
    IF Len(s) >= 1 /\ ~s[Len(s)].ok THEN Len(s) - 1 ELSE Len(s)

\* C23: over a well-formed stream the responses sent and the result are a
\* function of the items and the model string alone, the same whether the
\* call runs the Azure branch or the OpenAI branch: one response per good
\* chunk with the transcript so far and the chunk's delta, then Ok(the whole
\* transcript).
C23_VariantsAgreeOnWellFormed ==
    (pc = "done" /\ stream # None /\ WellFormed(Items)) =>
        /\ sent = [i \in 1..GoodCount(Items) |->
                     LLMClientCompletionResponse(
                         ConcatDeltas(Items, i), Some(DeltaText(Items[i])),
                         model(request.model)[1])]
        /\ receiver_alive => channel = sent
        /\ result = Some(Ok(ConcatDeltas(Items, GoodCount(Items))))

C23_Witness ==
    /\ pc = "done"
    /\ stream # None
    /\ ClientKind = "OpenAIClient"
    /\ WellFormed(Items)
    /\ Len(Items) = 3
    /\ ErrPolled
    /\ DeltaText(Items[1]) = <<>>
    /\ DeltaText(Items[2]) = <<"b">>
    /\ Len(sent) = 2
    /\ result = Some(Ok(<<"b">>))

\* C24: a call that returns Ok(t) returns the transcript of the last
\* response it sent, or the empty text when it sent none, in both branches
\* and over any stream.
C24_ReturnedTranscriptWasPublished ==
    (pc = "done" /\ result # None /\ result[1].ok) =>
        result[1].val = (IF sent = <<>> THEN <<>>
                         ELSE sent[Len(sent)].answer_up_until_now)

C24_Witness ==
    /\ pc = "done"
    /\ stream # None
    /\ ClientKind = "OpenAIClient"
    /\ polled = 3
    /\ Len(sent) = 2
    /\ ~HasDeltaText(Items[3])
    /\ Items[3].ok
    /\ result = Some(Ok(<<"a", "b">>))
    /\ sent[2].answer_up_until_now = <<"a", "b">>

----------------------------------------------------------------------------
(* Properties of the checks that precede the stream *)

\* C7: a model without a backend mapping fails with UnSupportedModel
\* whatever the credential bundle; the lookup precedes the credential check.
C7_UnsupportedModelFirst ==
    (pc # "start" /\ model(request.model) = None) =>
        /\ pc = "done"
        /\ result = Some(Err("UnSupportedModel"))

C7_Witness ==
    /\ pc = "done"
    /\ request.model \notin MappedLLMTypes
    /\ api_key.tag = "Anthropic"
    /\ result = Some(Err("UnSupportedModel"))

ValidMessages == \A i \in 1..Len(request.messages) :
    ~(request.messages[i].role = "Function"
      /\ request.messages[i].function_call = None)

\* C8: for DeepSeekCoder33BInstruct the override is decided before the
\* bundle's tag: an Azure bundle gives an OpenAI-compatible handle built from
\* its api key and base URL, any other bundle fails with WrongAPIKeyType.
C8_PinnedModelOverride ==
    (pc # "start" /\ request.model = "DeepSeekCoder33BInstruct"
       /\ ValidMessages) =>
        IF api_key.tag = "OpenAIAzureConfig"
        THEN /\ client # None
             /\ client[1].kind = "OpenAIClient"
             /\ client[1].api_key = api_key.api_key
             /\ client[1].api_base = api_key.api_base
        ELSE /\ client = None
             /\ pc = "done"
             /\ result = Some(Err("WrongAPIKeyType"))

C8_Witness ==
    /\ pc = "next"
    /\ request.model = "DeepSeekCoder33BInstruct"
    /\ api_key.tag = "OpenAIAzureConfig"
    /\ api_key.api_key = "az-key-2"
    /\ client # None
    /\ client[1].kind = "OpenAIClient"
    /\ client[1].api_base = "https://two.azure"

\* C9: for a mapped model other than the pinned one, an OpenAI key bundle
\* gives an OpenAI-compatible handle, an Azure bundle an Azure handle, and
\* a bundle of any other family fails with WrongAPIKeyType and no handle.
C9_CredentialDispatch ==
    (pc # "start" /\ request.model \in MappedLLMTypes
       /\ request.model # "DeepSeekCoder33BInstruct" /\ ValidMessages) =>
        CASE api_key.tag = "OpenAI" ->
               /\ client # None
               /\ client[1].kind = "OpenAIClient"
               /\ client[1].api_key = api_key.api_key
          [] api_key.tag = "OpenAIAzureConfig" ->
               /\ client # None
               /\ client[1].kind = "AzureClient"
               /\ client[1].api_key = api_key.api_key
               /\ client[1].api_base = api_key.api_base
               /\ client[1].deployment_id = api_key.deployment_id
               /\ client[1].api_version = api_key.api_version
          [] OTHER ->
               /\ client = None
               /\ pc = "done"
               /\ result = Some(Err("WrongAPIKeyType"))

C9_Witness ==
    /\ pc = "done"
    /\ request.model = "Gpt4O"
    /\ ValidMessages
    /\ api_key.tag = "TogetherAI"
    /\ client = None
    /\ result = Some(Err("WrongAPIKeyType"))

\* C22: the checks before the stream run in the order model lookup, message
\* normalisation, credential resolution, and the first that fails gives the
\* error: an unmapped model gives UnSupportedModel whatever the messages; a
\* mapped model with a Function message without its call gives
\* FunctionCallNotPresent whatever the bundle; WrongAPIKeyType is left for
\* requests that pass both.
C22_PreflightOrder ==
    pc # "start" =>
        /\ model(request.model) = None =>
              result = Some(Err("UnSupportedModel"))
        /\ (model(request.model) # None /\ ~ValidMessages) =>
              result = Some(Err("FunctionCallNotPresent"))
        /\ (model(request.model) # None /\ ValidMessages
               /\ ~generate_openai_client(api_key, request.model).ok) =>
              result = Some(Err("WrongAPIKeyType"))

C22_Witness ==
    /\ pc = "done"
    /\ request.model = "Gpt4"
    /\ ~ValidMessages
    /\ api_key.tag = "Anthropic"
    /\ ~generate_openai_client(api_key, request.model).ok
    /\ result = Some(Err("FunctionCallNotPresent"))


PreflightErrors == {"UnSupportedModel", "FunctionCallNotPresent", "WrongAPIKeyType"}

\* C13: a call that fails with UnSupportedModel, FunctionCallNotPresent or
\* WrongAPIKeyType has opened no stream and has sent no response.
C13_PreflightFailureHasNoEffect ==
    (pc = "done" /\ ~result[1].ok /\ result[1].err \in PreflightErrors) =>
        /\ stream = None
        /\ polled = 0
        /\ sent = <<>>
        /\ channel = <<>>

C13_Witness ==
    /\ pc = "done"
    /\ result = Some(Err("WrongAPIKeyType"))
    /\ request.model = "Gpt4Turbo"
    /\ api_key.tag = "Anthropic"
    /\ stream = None
    /\ sent = <<>>

\* C14: when the stream cannot be opened the call returns the transport
\* error and has sent nothing, in both branches.
C14_OpenFailureIsReturned ==
    (pc = "done" /\ client # None /\ stream = None) =>
        /\ result = Some(Err("OpenAPIError"))
        /\ sent = <<>>
        /\ channel = <<>>

C14_Witness ==
    /\ pc = "done"
    /\ client # None
    /\ client[1].kind = "AzureClient"
    /\ stream = None
    /\ result = Some(Err("OpenAPIError"))

----------------------------------------------------------------------------
(* Properties of OpenAIClient::messages *)

\* C10: a list that holds a Function-role message without a function call
\* makes messages return FunctionCallNotPresent, whatever the content of
\* that message and whatever the other messages are.
C10_FunctionCallMissing ==
    (pc = "messages_done"
       /\ \E i \in 1..Len(request.messages) :
             /\ request.messages[i].role = "Function"
             /\ request.messages[i].function_call = None) =>
        /\ ~formatted_messages[1].ok
        /\ formatted_messages[1].err = "FunctionCallNotPresent"

C10_Witness ==
    /\ pc = "messages_done"
    /\ Len(request.messages) = 2
    /\ request.messages[1].role = "Assistant"
    /\ request.messages[1].function_call # None
    /\ request.messages[2] = Message("Function", "", None)
    /\ ~formatted_messages[1].ok
    /\ formatted_messages[1].err = "FunctionCallNotPresent"

\* C11: messages is all or nothing: Ok with one wire message for each input
\* message, in input order, or an Err that carries no wire message; never a
\* partial list.
C11_MessagesAllOrNothing ==
    pc = "messages_done" =>
        LET r == formatted_messages[1]
            msgs == request.messages
        IN IF r.ok
           THEN /\ Len(r.val) = Len(msgs)
                /\ \A i \in 1..Len(msgs) :
                      /\ format_message(msgs[i]).ok
                      /\ r.val[i] = format_message(msgs[i]).val
           ELSE /\ r.val = <<>>
                /\ \E i \in 1..Len(msgs) : ~format_message(msgs[i]).ok

C11_Witness ==
    /\ pc = "messages_done"
    /\ Len(request.messages) = 2
    /\ request.messages[1] = Message("Function", "hi", None)
    /\ request.messages[2] = Message("User", "hi", None)
    /\ formatted_messages = Some(Err("FunctionCallNotPresent"))

\* C12: User and System map to the user and system message carrying the
\* content; Assistant with a function call maps to a function-invocation
\* message carrying the call's name and arguments and no content; Assistant
\* without one maps to a plain assistant message carrying the content.
C12_RoleMapping ==
    (pc = "messages_done" /\ formatted_messages[1].ok) =>
        \A i \in 1..Len(request.messages) :
            LET m == request.messages[i]
                w == formatted_messages[1].val[i]
            IN CASE m.role = "User" ->
                      /\ w.variant = "User" /\ w.role = "user"
                      /\ w.content = Some(m.content)
                      /\ w.function_call = None
                 [] m.role = "System" ->
                      /\ w.variant = "System" /\ w.role = "system"
                      /\ w.content = Some(m.content)
                      /\ w.function_call = None
                 [] m.role = "Assistant" /\ m.function_call # None ->
                      /\ w.variant = "Assistant" /\ w.role = "function"
                      /\ w.content = None
                      /\ w.function_call =
                            Some([name |-> m.function_call[1].name,
                                  arguments |-> m.function_call[1].arguments])
                 [] m.role = "Assistant" /\ m.function_call = None ->
                      /\ w.variant = "Assistant" /\ w.role = "assistant"
                      /\ w.content = Some(m.content)
                      /\ w.function_call = None
                 [] OTHER -> TRUE

C12_Witness ==
    /\ pc = "messages_done"
    /\ formatted_messages[1].ok
    /\ Len(request.messages) = 2
    /\ request.messages[1] = Message("Assistant", "hi", Some(FunctionCallValue))
    /\ request.messages[2] = Message("Assistant", "hi", None)
    /\ formatted_messages[1].val[1].content = None
    /\ formatted_messages[1].val[2].content = Some("hi")

----------------------------------------------------------------------------
(* Properties of completion and stream_prompt_completion *)

\* What stream_completion returns for a bundle, a request and what the
\* backend answers: None when the stream cannot be opened, else its items.
StreamCompletionResult(key, req, answer) ==
    LET p == preflight(key, req) IN
    IF ~p.ok THEN Err(p.err)
    ELSE IF answer = None THEN Err("OpenAPIError")
    ELSE LiveRun(p.val.client.kind, answer[1], 1, <<>>).result

\* C15: completion returns what stream_completion returns for the same
\* bundle, request and backend answer, the same Ok transcript or the same
\* error, over a channel of its own that nobody reads.
C15_CompletionIsStreamCompletion ==
    completion_pc = "done" =>
        /\ completion_result = result
        /\ completion_result =
              Some(StreamCompletionResult(api_key, request, stream))
        /\ ~receiver_alive
        /\ channel = <<>>

C15_Witness ==
    /\ completion_pc = "done"
    /\ stream # None
    /\ Len(sent) = 2
    /\ completion_result = Some(Ok(<<"a", "b">>))

\* C16: stream_prompt_completion returns OpenAIDoesNotSupportCompletion for
\* every input, never Ok, sends nothing and opens no stream.
C16_PromptCompletionRejected ==
    pc = "done" =>
        /\ result = Some(Err("OpenAIDoesNotSupportCompletion"))
        /\ sent = <<>>
        /\ channel = <<>>
        /\ client = None
        /\ stream = None

C16_Witness ==
    /\ pc = "done"
    /\ request.model = "Gpt4"
    /\ api_key.tag = "OpenAI"
    /\ receiver_alive
    /\ result = Some(Err("OpenAIDoesNotSupportCompletion"))

----------------------------------------------------------------------------
(* Properties of the fan-out of ReferenceFilterBroker::invoke *)

\* C17: at every instant the requests started and not yet finished are at
\* most the limit of buffer_unordered, 200, whatever the size of the batch
\* and the order in which requests finish.
C17_InFlightWithinLimit ==
    /\ load_started - load_finished <= 200
    /\ load_finished <= load_started
    /\ load_started <= load_total

C17_Witness ==
    /\ load_started - load_finished = 200
    /\ load_started < load_total
    /\ load_finished >= 1

BatchSize == Len(tool_input.reference_outlines)

\* Request i has produced exactly one result.
OneResult(i) ==
    Cardinality({k \in 1..Len(completed) : completed[k].request = i}) = 1

AllResultsOnce ==
    /\ Len(completed) = BatchSize
    /\ \A i \in 1..BatchSize : OneResult(i)

\* C18: when every request eventually finishes, the fan-out eventually
\* finishes and every request of the batch has produced exactly one result,
\* in whatever order the requests complete.
C18_EveryRequestFinishesOnce ==
    <>(broker_pc = "done"
       /\ (tool_input.kind = "ReferencesFilter" => AllResultsOnce))

C18_Witness ==
    /\ broker_pc = "done"
    /\ BatchSize = 3
    /\ AllResultsOnce
    /\ completed[1].request = 3
    /\ completed[2].request = 1

\* C19: a request that fails neither cancels nor changes any other request
\* of the batch: every request is started, completes, and its response is
\* the one the client layer gives to that request.
C19_FailureIsIsolated ==
    /\ \A k \in 1..Len(completed) :
          completed[k].response = backend[completed[k].request]
    /\ (broker_pc = "done" /\ tool_input.kind = "ReferencesFilter") =>
          \A i \in 1..BatchSize :
              /\ \E k \in 1..Len(calls) : calls[k].request = i
              /\ \E k \in 1..Len(completed) :
                    /\ completed[k].request = i
                    /\ completed[k].response = backend[i]

C19_Witness ==
    /\ broker_pc = "done"
    /\ BatchSize = 3
    /\ ~completed[1].response.ok
    /\ completed[2].response = Ok(<<"a">>)
    /\ completed[3].response = Ok(<<"b">>)

\* C20: no request is issued twice; when the fan-out has finished the calls
\* issued are as many as the requests of the batch, failures included.
C20_NoRetry ==
    /\ \A i \in 1..BatchSize :
          Cardinality({k \in 1..Len(calls) : calls[k].request = i}) <= 1
    /\ Len(calls) <= BatchSize
    /\ (broker_pc = "done" /\ tool_input.kind = "ReferencesFilter") =>
          Len(calls) = BatchSize

C20_Witness ==
    /\ broker_pc = "done"
    /\ BatchSize = 3
    /\ Len(calls) = 3
    /\ \A i \in 1..3 : ~backend[i].ok

\* What invoke has done when it returns on a filter-references input: the
\* result is Err(MissingTool), nothing is in flight, and the calls issued are
\* one for each reference outline, each carrying its outline.
ReturnedMissingTool ==
    /\ broker_result = Some(Err("MissingTool"))
    /\ in_flight = {}
    /\ Len(completed) = Len(calls)
    /\ Len(calls) = BatchSize
    /\ \A i \in 1..BatchSize :
          /\ calls[i].request = i
          /\ calls[i].completion_request.messages[2].content.reference =
                tool_input.reference_outlines[i]

\* C25: on a filter-references input invoke does not return while a request
\* is to be issued or in flight, it eventually returns, and when it returns
\* the result is Err(MissingTool) whether the completions succeeded or
\* failed, with one call issued per reference outline (none for no outline).
C25_InvokeEndsInMissingTool ==
    /\ [](tool_input.kind = "ReferencesFilter" =>
            IF broker_pc = "done" THEN ReturnedMissingTool
            ELSE broker_result = None)
    /\ <>(broker_pc = "done")

C25_Witness ==
    /\ broker_pc = "done"
    /\ tool_input.kind = "ReferencesFilter"
    /\ BatchSize = 3
    /\ \A i \in 1..3 : backend[i].ok
    /\ Len(calls) = 3
    /\ completed[1].request = 2
    /\ broker_result = Some(Err("MissingTool"))

----------------------------------------------------------------------------
(* Properties of ReferenceFilterBroker::parse_response *)

\* Positions of the lines that contain the tag, among lines from..Len(ls).
LinesWith(ls, tag, from) == {i \in from..Len(ls) : contains(ls[i], tag)}

Least(S) == CHOOSE i \in S : \A j \in S : i <= j

\* C26: the answer is the lines strictly after the first line containing
\* "<reply>" and strictly before the next later line containing "</reply>",
\* joined by line feeds: empty when no line contains "<reply>", all the
\* lines after the "<reply>" line when no later line contains "</reply>".
C26_ParseResponseBetweenTags ==
    reply_answer # None =>
        LET ls == lines(reply_text)
            opens == LinesWith(ls, "<reply>", 1)
        IN IF opens = {} THEN reply_answer[1] = <<>>
           ELSE LET open == Least(opens)
                    closes == LinesWith(ls, "</reply>", open + 1)
                    close == IF closes = {} THEN Len(ls) + 1
                             ELSE Least(closes)
                IN reply_answer[1] =
                      join([i \in 1..(close - open - 1) |-> ls[open + i]],
                           "\n")

C26_Witness ==
    /\ reply_text = <<"<reply>", "\n", "yes", "\n", "\n", "</reply>">>
    /\ reply_answer = Some(<<"yes", "\n">>)

====
